---- MODULE Spec2Model ----
(***************************************************************************)
(* Model of assets/js/auth.js: the AuthManager singleton (roles, session,  *)
(* permission evaluation, audit log), the click interceptor and FW_API.    *)
(*                                                                         *)
(* Conventions.                                                            *)
(*  - A permission string is a sequence of tokens in which ":" is a token  *)
(*    of its own: "view:dashboard" is <<"view", ":", "dashboard">>, "*" is *)
(*    <<"*">> and the empty string is <<>>.  split(':') and template       *)
(*    concatenation are computed on that sequence.                         *)
(*  - Undef stands for JavaScript's undefined in string-valued fields.     *)
(*  - Date.now() is the integer now (milliseconds); an ISO timestamp is    *)
(*    the record [iso |-> ms], which Date parsing maps back to ms.         *)
(*  - localStorage values are modelled by what JSON.stringify writes: an   *)
(*    object keeps only its defined properties, so a stored object is a    *)
(*    function whose domain may miss keys; reading a missing key gives     *)
(*    Undef (Get).                                                         *)
(***************************************************************************)
EXTENDS Integers, Sequences, FiniteSets, TLC

VARIABLES
    pc,             \* "unloaded": script not run yet; "ready"; "crashed": constructor threw
    now,            \* Date.now()
    location,       \* window.location of the loaded page: [pathname, hash]
    navigatedTo,    \* the page a window.location.href assignment is taking the browser to
    storedAuth,     \* localStorage 'fw-auth'
    storedLog,      \* localStorage 'fw-audit-log'
    storedRedirect, \* localStorage 'fw-auth-redirect'
    storedMessage,  \* localStorage 'fw-auth-message'
    currentUser,    \* this.currentUser
    auditLog,       \* this.auditLog: its elements when it is an array
    logKind,        \* "array", or "object" when this.auditLog is no array
    lastTick,       \* time the interval timer was started or last fired
    steps,          \* operations left in this page lifetime (model bound)
    last,           \* history: the last operation, its arguments and its outcome
    issued,         \* history: sessionIds generated by setSession in this lifetime
    appendedAll,    \* history: entries pushed by logAudit in this lifetime
    bootLen,        \* history: length of the log loaded by the constructor
    warned          \* history: timestamps of the sessions showWarning was called for

vars == <<pc, now, location, navigatedTo, storedAuth, storedLog, storedRedirect, storedMessage,
          currentUser, auditLog, logKind, lastTick, steps, last, issued, appendedAll, bootLen,
          warned>>

(* Time *)

MINUTE == 60 * 1000
HOUR == 60 * MINUTE
SessionTTL == 24 * 60 * 60 * 1000
TimerPeriod == 60 * 1000
WarnHigh == 5 * 60 * 1000
WarnLow == 4 * 60 * 1000
AuditCap == 1000

\* new Date().toISOString() and new Date(iso).getTime()
toISOString(ms) == [iso |-> ms]
getTime(ts) == ts.iso

(* JavaScript values *)

Undef == "<undefined>"
Null == [isNull |-> TRUE]

Get(obj, k) == IF k \in DOMAIN obj THEN obj[k] ELSE Undef

\* truthiness of a string-valued property
TruthyStr(s) == s # Undef /\ s # ""

\* truthiness of this.currentUser (null or an object)
Truthy(cu) == cu # Null

\* a || b on string-valued operands
OrElse(a, b) == IF TruthyStr(a) THEN a ELSE b

\* arr.slice(-n)
SliceLast(arr, n) ==
    IF Len(arr) <= n THEN arr ELSE SubSeq(arr, Len(arr) - n + 1, Len(arr))

\* arr.includes(x)
includes(arr, x) == \E i \in DOMAIN arr : arr[i] = x

(* Role registry *)

Perm(category, action) == <<category, ":", action>>
Star == <<"*">>

\* a registry whose researcher role is given view:dashboard without the
\* dashboardAccess flag
rolesResearcherDashboard ==
    [guest |->
        [name |-> "Guest",
         permissions |-> <<Perm("view", "public"), Perm("read", "catalog")>>,
         dashboardAccess |-> FALSE],
     researcher |->
        [name |-> "Researcher",
         permissions |-> <<Perm("view", "public"), Perm("read", "catalog"),
                           Perm("download", "metadata"), Perm("view", "dashboard")>>,
         dashboardAccess |-> FALSE],
     curator |->
        [name |-> "Curator",
         permissions |-> <<Perm("view", "public"), Perm("read", "catalog"),
                           Perm("write", "artifacts"), Perm("edit", "metadata"),
                           Perm("generate", "reports"), Perm("view", "dashboard"),
                           Perm("export", "data"), Perm("propose", "deaccession")>>,
         dashboardAccess |-> TRUE],
     board |->
        [name |-> "Board Member",
         permissions |-> <<Perm("view", "public"), Perm("read", "catalog"),
                           Perm("view", "dashboard"), Perm("view", "reports"),
                           Perm("approve", "deaccession"), Perm("view", "financial"),
                           Perm("export", "reports"), Perm("audit", "readonly")>>,
         dashboardAccess |-> TRUE],
     auditor |->
        [name |-> "External Auditor",
         permissions |-> <<Perm("view", "public"), Perm("read", "catalog"),
                           Perm("view", "dashboard"), Perm("audit", "full"),
                           Perm("export", "reports"), Perm("view", "compliance")>>,
         dashboardAccess |-> TRUE],
     admin |->
        [name |-> "System Administrator",
         permissions |-> <<Star>>,
         dashboardAccess |-> TRUE]]

roles ==
    [guest |->
        [name |-> "Guest",
         permissions |-> <<Perm("view", "public"), Perm("read", "catalog")>>,
         dashboardAccess |-> FALSE],
     researcher |->
        [name |-> "Researcher",
         permissions |-> <<Perm("view", "public"), Perm("read", "catalog"),
                           Perm("download", "metadata")>>,
         dashboardAccess |-> FALSE],
     curator |->
        [name |-> "Curator",
         permissions |-> <<Perm("view", "public"), Perm("read", "catalog"),
                           Perm("write", "artifacts"), Perm("edit", "metadata"),
                           Perm("generate", "reports"), Perm("view", "dashboard"),
                           Perm("export", "data"), Perm("propose", "deaccession")>>,
         dashboardAccess |-> TRUE],
     board |->
        [name |-> "Board Member",
         permissions |-> <<Perm("view", "public"), Perm("read", "catalog"),
                           Perm("view", "dashboard"), Perm("view", "reports"),
                           Perm("approve", "deaccession"), Perm("view", "financial"),
                           Perm("export", "reports"), Perm("audit", "readonly")>>,
         dashboardAccess |-> TRUE],
     auditor |->
        [name |-> "External Auditor",
         permissions |-> <<Perm("view", "public"), Perm("read", "catalog"),
                           Perm("view", "dashboard"), Perm("audit", "full"),
                           Perm("export", "reports"), Perm("view", "compliance")>>,
         dashboardAccess |-> TRUE],
     admin |->
        [name |-> "System Administrator",
         permissions |-> <<Star>>,
         dashboardAccess |-> TRUE]]

RegisteredRoles == DOMAIN roles

\* Property names every object literal inherits from Object.prototype: this.roles[k]
\* finds a (truthy) value for them although k is no own key of this.roles.
ObjectPrototypeKeys ==
    {"constructor", "toString", "valueOf", "hasOwnProperty", "__proto__"}

\* this.roles[key]: "role" (own key), "inherited" (a function or object from
\* Object.prototype, which has no .permissions) or "undefined"
RoleLookup(key) ==
    IF key \in RegisteredRoles THEN "role"
    ELSE IF key \in ObjectPrototypeKeys THEN "inherited"
    ELSE "undefined"

(* hasPermission *)

\* index of the first ":" of a permission string, Len + 1 if there is none
FirstColon(p) ==
    IF \E i \in DOMAIN p : p[i] = ":"
    THEN CHOOSE i \in DOMAIN p : p[i] = ":" /\ \A j \in 1..(i - 1) : p[j] # ":"
    ELSE Len(p) + 1

\* const [category] = permission.split(':')
Category(p) == SubSeq(p, 1, FirstColon(p) - 1)

\* a grant rule that forgets both wildcards
RoleGrantsExactOnly(role, permission) == includes(role.permissions, permission)

\* role.permissions.includes('*') || includes(permission) || includes(`${category}:*`)
RoleGrants(role, permission) ==
    IF includes(role.permissions, Star) THEN TRUE
    ELSE IF includes(role.permissions, permission) THEN TRUE
    ELSE IF Category(permission) # <<>>
         THEN includes(role.permissions, Category(permission) \o <<":", "*">>)
         ELSE FALSE

\* hasPermission(permission) on this.currentUser = cu: "true", "false", or
\* "TypeError" when role.permissions is undefined and .includes is called on it
hasPermission(cu, permission) ==
    IF ~Truthy(cu) THEN "false"
    ELSE LET key == Get(cu, "role")
             found == RoleLookup(key)
         IN  IF found = "undefined" THEN "false"
             ELSE IF found = "inherited" THEN "TypeError"
             ELSE IF RoleGrants(roles[key], permission) THEN "true" ELSE "false"

(* localStorage and JSON *)

Absent == [kind |-> "absent"]       \* getItem returns null
Garbage == [kind |-> "garbage"]     \* a stored text JSON.parse rejects
ObjectText == [kind |-> "object"]   \* a stored text that parses to an object that is no array: '{}'
NoItem == "<no item>"

\* keys whose values are strings in this model and so may be undefined
StringKeys ==
    {"username", "role", "name", "userId", "reason", "action", "format",
     "endpoint", "method"}

\* what JSON.stringify keeps of an object: the properties that are not undefined
DropUndefined(obj) ==
    IF \A key \in DOMAIN obj \cap StringKeys : obj[key] # Undef THEN obj
    ELSE [k \in {key \in DOMAIN obj : ~(key \in StringKeys /\ obj[key] = Undef)} |-> obj[k]]

\* JSON.stringify(session)
JSONstringify(obj) == [kind |-> "json", value |-> DropUndefined(obj)]

\* JSON.stringify(this.auditLog)
JSONstringifyLog(log) ==
    [kind |-> "json",
     value |-> [i \in DOMAIN log |-> [log[i] EXCEPT !.data = DropUndefined(@)]]]

\* JSON.parse of a stored text that parses
JSONparse(item) == item.value

(* window.location *)

LoginPage == "login.html"

\* window.location.pathname + window.location.hash
PathOf(loc) == <<loc.pathname, loc.hash>>

(* The methods of AuthManager as functions of a state record                *)
(* [now, location, navigatedTo, storedAuth, storedLog, storedRedirect,      *)
(*  storedMessage, currentUser, auditLog, logKind, appended, threw]:        *)
(* appended collects the entries the call pushed, threw tells that an       *)
(* exception is propagating: the statements that follow the throwing one    *)
(* are not executed, so a method applied to such a state leaves it as it    *)
(* is.  Assigning window.location.href starts a navigation; the location    *)
(* the running script reads stays the one of the loaded page.               *)

\* the entry logAudit builds; rnd is Math.random().toString(36).substr(2, 9)
AuditEntry(s, event, data, rnd) ==
    [id |-> [ms |-> s.now, rnd |-> rnd],
     timestamp |-> toISOString(s.now),
     event |-> event,
     userId |-> IF Truthy(s.currentUser)
                THEN OrElse(Get(s.currentUser, "username"), "anonymous")
                ELSE "anonymous",
     userRole |-> IF Truthy(s.currentUser)
                  THEN OrElse(Get(s.currentUser, "role"), "guest")
                  ELSE "guest",
     path |-> PathOf(s.location),
     data |-> data]

\* a truncation that keeps the oldest entries: slice(0, 1000)
PushCappedKeepOldest(log, entry) ==
    LET pushed == Append(log, entry)
    IN  IF Len(pushed) > AuditCap THEN SubSeq(pushed, 1, AuditCap) ELSE pushed

\* this.auditLog.push(entry); if (length > 1000) this.auditLog = this.auditLog.slice(-1000)
PushCapped(log, entry) ==
    LET pushed == Append(log, entry)
    IN  IF Len(pushed) > AuditCap THEN SliceLast(pushed, AuditCap) ELSE pushed

\* a logAudit that does not write the log to localStorage
logAuditNoPersist(s, event, data, rnd) ==
    LET entry == AuditEntry(s, event, data, rnd)
    IN  IF s.threw THEN s
        ELSE IF s.logKind # "array" THEN [s EXCEPT !.threw = TRUE]
        ELSE [s EXCEPT !.auditLog = PushCapped(s.auditLog, entry),
                       !.appended = Append(@, entry)]

\* logAudit: this.auditLog.push is not a function when this.auditLog is no
\* array, and the call is a TypeError
logAudit(s, event, data, rnd) ==
    LET entry == AuditEntry(s, event, data, rnd)
        log == PushCapped(s.auditLog, entry)
    IN  IF s.threw THEN s
        ELSE IF s.logKind # "array" THEN [s EXCEPT !.threw = TRUE]
        ELSE [s EXCEPT !.auditLog = log,
                       !.storedLog = JSONstringifyLog(log),
                       !.appended = Append(@, entry)]

clearSession(s) ==
    IF s.threw THEN s
    ELSE [s EXCEPT !.storedAuth = Absent, !.currentUser = Null]

redirectToLogin(s, message) ==
    IF s.threw THEN s
    ELSE [s EXCEPT !.storedRedirect = s.location,
                   !.storedMessage = message,
                   !.navigatedTo = LoginPage]

DefaultLoginMessage == "Please log in to continue"

\* a logout that clears the session before it writes the audit entry
logoutClearFirst(s, reason, rnd) ==
    redirectToLogin(
        logAudit(clearSession(s), "user_logout", [reason |-> reason], rnd),
        DefaultLoginMessage)

logout(s, reason, rnd) ==
    redirectToLogin(
        clearSession(logAudit(s, "user_logout", [reason |-> reason], rnd)),
        DefaultLoginMessage)

\* the session object setSession builds
NewSession(s, username, role, name, twoFactor) ==
    [username |-> username, role |-> role, name |-> name,
     timestamp |-> toISOString(s.now),
     sessionId |-> [prefix |-> "fw-", ms |-> s.now],
     twoFactor |-> twoFactor]

\* a setSession that writes the audit entry before it installs the session
setSessionLogFirst(s, username, role, name, twoFactor, rnd) ==
    LET session == NewSession(s, username, role, name, twoFactor)
        s1 == logAudit(s, "session_created",
                       [userId |-> username, role |-> role, twoFactor |-> twoFactor], rnd)
    IN  [s1 EXCEPT !.storedAuth = JSONstringify(session),
                   !.currentUser = session]

setSession(s, username, role, name, twoFactor, rnd) ==
    LET session == NewSession(s, username, role, name, twoFactor)
        s1 == [s EXCEPT !.storedAuth = JSONstringify(session),
                        !.currentUser = session]
    IN  logAudit(s1, "session_created",
                 [userId |-> username, role |-> role, twoFactor |-> twoFactor], rnd)

\* Date.now() - new Date(cu.timestamp).getTime() > ms; the age of an object
\* without timestamp is NaN, and every comparison with NaN is false
OlderThan(s, cu, ms) ==
    IF "timestamp" \in DOMAIN cu THEN s.now - getTime(cu.timestamp) > ms ELSE FALSE

\* catch (e) { this.clearSession(); }
catchClearSession(s) == clearSession([s EXCEPT !.threw = FALSE])

\* a loadSession without the age check
loadSessionNoExpiry(s, rnd1, rnd2) ==
    IF s.storedAuth = Absent THEN s
    ELSE IF s.storedAuth = Garbage THEN catchClearSession(s)
    ELSE LET cu == JSONparse(s.storedAuth)
             s1 == [s EXCEPT !.currentUser = cu]
             s2 == logAudit(s1, "session_loaded",
                            [userId |-> Get(cu, "username"), role |-> Get(cu, "role")],
                            rnd1)
         IN  IF cu = Null THEN catchClearSession(s1)
             ELSE IF s2.threw THEN catchClearSession(s2)
             ELSE s2

\* loadSession: JSON.parse of a rejected text throws, this.currentUser.username
\* throws when the text parsed to null, logAudit may throw; the catch block
\* clears the session
loadSession(s, rnd1, rnd2) ==
    IF s.storedAuth = Absent THEN s
    ELSE IF s.storedAuth = Garbage THEN catchClearSession(s)
    ELSE LET cu == JSONparse(s.storedAuth)
             s1 == [s EXCEPT !.currentUser = cu]
             s2 == logAudit(s1, "session_loaded",
                            [userId |-> Get(cu, "username"), role |-> Get(cu, "role")],
                            rnd1)
         IN  IF cu = Null THEN catchClearSession(s1)
             ELSE IF s2.threw THEN catchClearSession(s2)
             ELSE IF OlderThan(s, cu, SessionTTL)
                  THEN logout(s2, "Session expired", rnd2)
                  ELSE s2

\* path.endsWith('dashboard.html') || path.includes('dashboard/'), on a pathname
\* given as its sequence of segments
IsDashboardPath(pathname) ==
    \/ pathname[Len(pathname)] = "dashboard.html"
    \/ \E i \in 1..(Len(pathname) - 1) : pathname[i] = "dashboard"

\* path.endsWith('audit.html')
IsAuditPath(pathname) == pathname[Len(pathname)] = "audit.html"

protectRoutes(s) ==
    LET path == s.location.pathname
        cu == s.currentUser
        auditGate ==
            IF IsAuditPath(path)
            THEN IF ~Truthy(cu) THEN redirectToLogin(s, "Audit access requires elevated permissions")
                 ELSE IF hasPermission(cu, Perm("audit", "full")) = "TypeError"
                      THEN [s EXCEPT !.threw = TRUE]
                 ELSE IF hasPermission(cu, Perm("audit", "full")) = "false"
                      THEN redirectToLogin(s, "Audit access requires elevated permissions")
                 ELSE s
            ELSE s
    IN  IF IsDashboardPath(path)
        THEN IF ~Truthy(cu) THEN redirectToLogin(s, "Please log in to access the dashboard")
             ELSE IF hasPermission(cu, Perm("view", "dashboard")) = "TypeError"
                  THEN [s EXCEPT !.threw = TRUE]
             ELSE IF hasPermission(cu, Perm("view", "dashboard")) = "false"
                  THEN redirectToLogin(s, "Please log in to access the dashboard")
             ELSE IF \/ RoleLookup(Get(cu, "role")) = "undefined"
                     \/ /\ RoleLookup(Get(cu, "role")) = "role"
                        /\ ~roles[Get(cu, "role")].dashboardAccess
                  THEN redirectToLogin(s, "Insufficient permissions for dashboard access")
             ELSE auditGate
        ELSE auditGate

\* loadStoredAuditLog: [] when nothing is stored or the text does not parse,
\* else whatever JSON.parse returns: kind tells whether that is an array,
\* items are its elements when it is
loadStoredAuditLog(s) ==
    IF s.storedLog = Absent THEN [kind |-> "array", items |-> <<>>]
    ELSE IF s.storedLog = Garbage THEN [kind |-> "array", items |-> <<>>]
    ELSE IF s.storedLog = ObjectText THEN [kind |-> "object", items |-> <<>>]
    ELSE [kind |-> "array", items |-> JSONparse(s.storedLog)]

\* new AuthManager(): roles, currentUser = null, loadStoredAuditLog, init()
Constructor(s, rnd1, rnd2) ==
    LET loaded == loadStoredAuditLog(s)
        s0 == [s EXCEPT !.currentUser = Null, !.auditLog = loaded.items,
                        !.logKind = loaded.kind]
    IN  protectRoutes(loadSession(s0, rnd1, rnd2))

\* a requirePermission that denies without writing the audit entry
requirePermissionSilent(s, permission, action, rnd) ==
    LET hp == hasPermission(s.currentUser, permission)
    IN  IF hp = "TypeError" THEN [st |-> [s EXCEPT !.threw = TRUE], ret |-> "TypeError"]
        ELSE IF hp = "false" THEN [st |-> s, ret |-> "false"]
        ELSE [st |-> s, ret |-> "true"]

\* requirePermission: the returned value is in ret ("true", "false", "TypeError")
requirePermission(s, permission, action, rnd) ==
    LET hp == hasPermission(s.currentUser, permission)
    IN  IF hp = "TypeError" THEN [st |-> [s EXCEPT !.threw = TRUE], ret |-> "TypeError"]
        ELSE IF hp = "false"
        THEN LET s1 == logAudit(s, "permission_denied",
                                [permission |-> permission, action |-> action,
                                 userId |-> IF Truthy(s.currentUser)
                                            THEN Get(s.currentUser, "username")
                                            ELSE Undef],
                                rnd)
             IN  [st |-> s1, ret |-> IF s1.threw THEN "TypeError" ELSE "false"]
        ELSE [st |-> s, ret |-> "true"]

\* a Date-valued filter that is not given
NoDate == [isUndefined |-> TRUE]

\* getAuditLog(): filters = {}
NoFilters == [userId |-> Undef, event |-> Undef, startDate |-> NoDate, endDate |-> NoDate]

\* the comparator (a, b) => new Date(b.timestamp) - new Date(a.timestamp):
\* negative when a sorts before b
CompareDesc(a, b) == getTime(b.timestamp) - getTime(a.timestamp)

\* the stable merge of two sorted runs: of two elements the comparator calls
\* equal, the one of the left run goes first
Merge(L, R) ==
    IF L = <<>> THEN R
    ELSE IF R = <<>> THEN L
    ELSE IF CompareDesc(L[Len(L)], R[1]) <= 0 THEN L \o R
    ELSE IF CompareDesc(R[Len(R)], L[1]) < 0 THEN R \o L
    ELSE LET posL == [i \in DOMAIN L |->
                        i + Cardinality({j \in DOMAIN R : CompareDesc(R[j], L[i]) < 0})]
             posR == [j \in DOMAIN R |->
                        j + Cardinality({i \in DOMAIN L : CompareDesc(L[i], R[j]) <= 0})]
         IN  [k \in 1..(Len(L) + Len(R)) |->
                IF \E i \in DOMAIN L : posL[i] = k
                THEN L[CHOOSE i \in DOMAIN L : posL[i] = k]
                ELSE R[CHOOSE j \in DOMAIN R : posR[j] = k]]

\* logs.sort(comparator): Array.prototype.sort is a stable merge sort
RECURSIVE sort(_)
sort(logs) ==
    IF Len(logs) <= 1 THEN logs
    ELSE LET mid == Len(logs) \div 2
         IN  Merge(sort(SubSeq(logs, 1, mid)), sort(SubSeq(logs, mid + 1, Len(logs))))

\* the filters of getAuditLog, in the order the code applies them
filterLogs(logs, filters) ==
    LET byUser(log) == log.userId = filters.userId
        byEvent(log) == log.event = filters.event
        fromStart(log) == getTime(log.timestamp) >= getTime(filters.startDate)
        toEnd(log) == getTime(log.timestamp) <= getTime(filters.endDate)
        logs1 == IF TruthyStr(filters.userId) THEN SelectSeq(logs, byUser) ELSE logs
        logs2 == IF TruthyStr(filters.event) THEN SelectSeq(logs1, byEvent) ELSE logs1
        logs3 == IF filters.startDate # NoDate THEN SelectSeq(logs2, fromStart) ELSE logs2
    IN  IF filters.endDate # NoDate THEN SelectSeq(logs3, toEnd) ELSE logs3

\* a getAuditLog that returns the matching entries in log order
getAuditLogUnsorted(s, filters) ==
    IF s.logKind # "array" THEN [st |-> [s EXCEPT !.threw = TRUE], out |-> <<>>]
    ELSE [st |-> s, out |-> filterLogs(s.auditLog, filters)]

\* a getAuditLog that works on this.auditLog itself instead of a copy: the
\* sort reorders the log
getAuditLogInPlace(s, filters) ==
    IF s.logKind # "array" THEN [st |-> [s EXCEPT !.threw = TRUE], out |-> <<>>]
    ELSE [st |-> [s EXCEPT !.auditLog = sort(s.auditLog)],
          out |-> sort(filterLogs(s.auditLog, filters))]

\* getAuditLog(filters): out is the returned list; filter and sort work on
\* the copy [...this.auditLog], and spreading an object that is no array is
\* a TypeError
getAuditLog(s, filters) ==
    IF s.logKind # "array" THEN [st |-> [s EXCEPT !.threw = TRUE], out |-> <<>>]
    ELSE [st |-> s, out |-> sort(filterLogs(s.auditLog, filters))]

\* `"${String(cell).replace(/"/g, '""')}"`: the cell between double quotes,
\* its own double quotes doubled
QuoteCell(cell) == [quoted |-> cell]

CsvHeaders == <<"Timestamp", "Event", "User ID", "User Role", "Path", "Data">>

\* the row of one entry: its cells, quoted and joined by commas
CsvRow(log) ==
    <<QuoteCell(log.timestamp), QuoteCell(log.event), QuoteCell(log.userId),
      QuoteCell(log.userRole), QuoteCell(log.path),
      QuoteCell(JSONstringify(log.data))>>

\* [headers, ...rows], one line per row
CsvOf(logs) ==
    LET headerRow == [i \in DOMAIN CsvHeaders |-> QuoteCell(CsvHeaders[i])]
        rows == [i \in DOMAIN logs |-> CsvRow(logs[i])]
    IN  Append(<<>>, headerRow) \o rows

\* nothing was handed to downloadFile
NoFile == [type |-> "none", content |-> <<>>]

\* the Blob exportAuditLog hands to downloadFile
ExportedFile(logs, format) ==
    IF format = "json"
    THEN [type |-> "application/json", content |-> JSONstringifyLog(logs)]
    ELSE IF format = "csv"
    THEN [type |-> "text/csv", content |-> CsvOf(logs)]
    ELSE NoFile

\* an exportAuditLog that writes its audit entry before it reads the log
exportAuditLogLogFirst(s, format, rnd) ==
    LET s1 == logAudit(s, "audit_log_exported",
                       [format |-> format, entryCount |-> Len(s.auditLog)], rnd)
        logs == getAuditLog(s1, NoFilters).out
    IN  [st |-> s1, file |-> IF s1.threw THEN NoFile ELSE ExportedFile(logs, format)]

\* exportAuditLog(format): file is the download, st the state after the
\* audit_log_exported entry
exportAuditLog(s, format, rnd) ==
    LET q == getAuditLog(s, NoFilters)
        logs == q.out
    IN  [st |-> logAudit(q.st, "audit_log_exported",
                         [format |-> format, entryCount |-> Len(logs)], rnd),
         file |-> IF q.st.threw THEN NoFile ELSE ExportedFile(logs, format)]

\* endpointPermissions[endpoint], <<>> when the endpoint is not in the mapping
endpointPermissions(endpoint) ==
    CASE endpoint = "/api/artifacts/create" -> Perm("write", "artifacts")
      [] endpoint = "/api/artifacts/update" -> Perm("edit", "metadata")
      [] endpoint = "/api/artifacts/delete" -> Perm("delete", "artifacts")
      [] endpoint = "/api/reports/generate" -> Perm("generate", "reports")
      [] endpoint = "/api/deaccessions/propose" -> Perm("propose", "deaccession")
      [] endpoint = "/api/deaccessions/approve" -> Perm("approve", "deaccession")
      [] endpoint = "/api/audit/logs" -> Perm("audit", "full")
      [] OTHER -> <<>>

\* FW_API.request(endpoint, {}, 'GET'): ret is the status the promise settles
\* with, or "TypeError" when it rejects
request(s, endpoint, rnd) ==
    LET requiredPermission == endpointPermissions(endpoint)
        hp == hasPermission(s.currentUser, requiredPermission)
    IN  IF ~Truthy(s.currentUser) THEN [st |-> s, ret |-> "401"]
        ELSE IF requiredPermission # <<>> /\ hp = "TypeError"
        THEN [st |-> [s EXCEPT !.threw = TRUE], ret |-> "TypeError"]
        ELSE IF requiredPermission # <<>> /\ hp = "false"
        THEN LET s1 == logAudit(s, "api_permission_denied",
                                [endpoint |-> endpoint,
                                 requiredPermission |-> requiredPermission,
                                 userId |-> Get(s.currentUser, "username")],
                                rnd)
             IN  [st |-> s1, ret |-> IF s1.threw THEN "TypeError" ELSE "403"]
        ELSE LET s1 == logAudit(s, "api_request",
                                [endpoint |-> endpoint, method |-> "GET", dataSize |-> 2],
                                rnd)
             IN  [st |-> s1, ret |-> IF s1.threw THEN "TypeError" ELSE "200"]

\* an interval callback that warns whenever less than five minutes remain
timerWarnsNoFloor(s) ==
    IF ~Truthy(s.currentUser) THEN FALSE
    ELSE IF "timestamp" \notin DOMAIN s.currentUser THEN FALSE
    ELSE SessionTTL - (s.now - getTime(s.currentUser.timestamp)) < WarnHigh

\* the interval callback of startSessionTimer: TRUE when it calls showWarning
timerWarns(s) ==
    IF ~Truthy(s.currentUser) THEN FALSE
    ELSE IF "timestamp" \notin DOMAIN s.currentUser THEN FALSE
    ELSE LET sessionAge == s.now - getTime(s.currentUser.timestamp)
             remaining == SessionTTL - sessionAge
         IN  remaining < WarnHigh /\ remaining > WarnLow

(* Inputs *)

MaxSteps == 2
MaxCapSteps == 1

\* now at page load, in milliseconds since an epoch two days earlier
T0 == 2 * SessionTTL

Account(username, role, name, twoFactor) ==
    [username |-> username, role |-> role, name |-> name, twoFactor |-> twoFactor]

\* the arguments setSession is called with
Logins ==
    {Account("alice", "curator", "Alice", FALSE),
     Account("bob", "board", "Bob", FALSE),
     Account("carol", "auditor", "Carol", TRUE),
     Account("dave", "admin", "Dave", TRUE),
     Account("erin", "researcher", "Erin", FALSE),
     Account("frank", "guest", Undef, FALSE),
     Account("mallory", "intern", "Mallory", FALSE),
     Account("trent", "constructor", "Trent", FALSE)}

\* values of Math.random().toString(36).substr(2, 9): two calls may return
\* the same value or different ones; the appends a click makes draw from
\* both, so that entries of one millisecond with equal and with different
\* suffixes occur
RandomSuffixes == {"k3x9q0z1a"}
ClickSuffixes == RandomSuffixes \cup {"7f2m0c5pd"}

AskedPermissions == {Perm("view", "dashboard"), Perm("approve", "deaccession")}

Reasons == {"User initiated logout", "Idle"}
Formats == {"json", "csv", "xml"}
Endpoints == {"/api/deaccessions/approve", "/api/audit/logs", "/api/ping"}
ClockSteps == {1, SessionTTL}

\* the filters getAuditLog is called with; '' for a filter is a form field
\* left empty
QueryFilters ==
    {NoFilters,
     [NoFilters EXCEPT !.userId = "alice"],
     [NoFilters EXCEPT !.userId = "", !.event = "session_created"],
     [NoFilters EXCEPT !.userId = "alice", !.startDate = toISOString(T0),
                       !.endDate = toISOString(T0)]}

IndexPage == [pathname |-> <<"index.html">>, hash |-> ""]

Pages ==
    {IndexPage,
     [pathname |-> <<"dashboard.html">>, hash |-> ""],
     [pathname |-> <<"audit.html">>, hash |-> ""]}

\* a session an earlier page load stored, age milliseconds before T0
StoredSession(a, age) ==
    JSONstringify(
        [username |-> a.username, role |-> a.role, name |-> a.name,
         timestamp |-> toISOString(T0 - age),
         sessionId |-> [prefix |-> "fw-", ms |-> T0 - age],
         twoFactor |-> a.twoFactor])

BootAuth ==
    {Absent, Garbage}
    \cup {StoredSession(Account("alice", "curator", "Alice", FALSE), age) :
            age \in {HOUR, SessionTTL, 25 * HOUR}}
    \cup {StoredSession(Account("trent", "constructor", "Trent", FALSE), HOUR)}

\* the stored sessions of the page loads that start at the cap
CapAuth ==
    {Absent, StoredSession(Account("alice", "curator", "Alice", FALSE), 25 * HOUR)}

\* an entry an earlier page load stored
StoredEntry(i) ==
    [id |-> [ms |-> i, rnd |-> "stored"],
     timestamp |-> toISOString(i),
     event |-> "api_request",
     userId |-> "alice",
     userRole |-> "curator",
     path |-> <<<<"index.html">>, "">>,
     data |-> [endpoint |-> "/api/ping", method |-> "GET", dataSize |-> 2]]

StoredLogOf(n) == [kind |-> "json", value |-> [i \in 1..n |-> StoredEntry(i)]]

BootLogs == {Absent, Garbage, StoredLogOf(1)}

\* an object that is no session, as another script may store it
NotASession == [theme |-> "dark"]

\* stored sessions that are no usable session: a text JSON.parse rejects, the
\* text 'null', the text of an object without username, role and timestamp;
\* and a usable one to compare with
CorruptAuth ==
    {Garbage,
     [kind |-> "json", value |-> Null],
     [kind |-> "json", value |-> NotASession],
     StoredSession(Account("alice", "curator", "Alice", FALSE), HOUR)}

\* stored sessions whose last minutes the page sees: the first firings of the
\* timer find 5 and 4 minutes, 4.5 and 3.5 minutes, 4 and 3 minutes left
TimerAuth ==
    {StoredSession(Account("alice", "curator", "Alice", FALSE), SessionTTL - lead) :
        lead \in {6 * MINUTE, 5 * MINUTE + 30 * 1000, 5 * MINUTE}}

\* stored logs that are no serialized array of entries, and no stored log
CorruptLogs == {Garbage, ObjectText, Absent}

\* stored logs around the cap, one of them longer than the cap
CapLogs == {StoredLogOf(n) : n \in {AuditCap - 1, AuditCap, AuditCap + 1}}

(* State machine *)

\* last: the operation, its arguments (perm, text, filters), what it returned
\* (ret, and out for a returned list of entries), the file it downloaded and
\* the entries it appended
NoOp ==
    [op |-> "none", perm |-> <<>>, text |-> "", filters |-> NoFilters,
     ret |-> "", out |-> <<>>, file |-> NoFile, appended |-> <<>>]

\* ret is what the call returns when it returns; a call that throws has the
\* exception for outcome
Op(name, perm, text, ret, st) ==
    [NoOp EXCEPT !.op = name, !.perm = perm, !.text = text,
                 !.ret = IF st.threw THEN "TypeError" ELSE ret,
                 !.appended = st.appended]

Cur ==
    [now |-> now, location |-> location, navigatedTo |-> navigatedTo,
     storedAuth |-> storedAuth,
     storedLog |-> storedLog, storedRedirect |-> storedRedirect,
     storedMessage |-> storedMessage, currentUser |-> currentUser,
     auditLog |-> auditLog, logKind |-> logKind, appended |-> <<>>, threw |-> FALSE]

\* the state a call leaves behind
Apply(s) ==
    /\ location' = s.location
    /\ navigatedTo' = s.navigatedTo
    /\ storedAuth' = s.storedAuth
    /\ storedLog' = s.storedLog
    /\ storedRedirect' = s.storedRedirect
    /\ storedMessage' = s.storedMessage
    /\ currentUser' = s.currentUser
    /\ auditLog' = s.auditLog
    /\ logKind' = s.logKind
    /\ appendedAll' = appendedAll \o s.appended

Ready == pc = "ready" /\ steps > 0

Step ==
    /\ steps' = steps - 1
    /\ UNCHANGED <<pc, now, lastTick, bootLen, warned>>

InitWith(pages, auths, logs, budget) ==
    /\ pc = "unloaded"
    /\ now = T0
    /\ location \in pages
    /\ navigatedTo = NoItem
    /\ storedAuth \in auths
    /\ storedLog \in logs
    /\ storedRedirect = Absent
    /\ storedMessage = NoItem
    /\ currentUser = Null
    /\ auditLog = <<>>
    /\ logKind = "array"
    /\ lastTick = T0
    /\ steps = budget
    /\ last = NoOp
    /\ issued = <<>>
    /\ appendedAll = <<>>
    /\ bootLen = 0
    /\ warned = <<>>

Init == InitWith(Pages, BootAuth, BootLogs, MaxSteps)

\* page loads that find a stored audit log at the cap
InitCap == InitWith({IndexPage}, CapAuth, CapLogs, MaxCapSteps)

\* page loads that find corrupt items in localStorage
InitCorrupt ==
    InitWith({IndexPage, [pathname |-> <<"dashboard.html">>, hash |-> ""]},
             CorruptAuth, CorruptLogs, MaxSteps)

\* page loads in the last minutes of a stored session
InitTimer == InitWith({IndexPage}, TimerAuth, {Absent, StoredLogOf(1)}, MaxSteps)

\* page loads that find the one-hour-old session of each account, on a page
\* the dashboard gates apply to or on the index page
RolePages ==
    {IndexPage,
     [pathname |-> <<"dashboard.html">>, hash |-> ""],
     [pathname |-> <<"dashboard", "index.html">>, hash |-> ""]}

RoleAuth == {StoredSession(a, HOUR) : a \in Logins}

InitRoles == InitWith(RolePages, RoleAuth, {Absent}, MaxSteps)

\* window.AuthManager = new AuthManager()
Construct ==
    /\ pc = "unloaded"
    /\ \E rnd1 \in RandomSuffixes, rnd2 \in RandomSuffixes :
         LET s == Constructor(Cur, rnd1, rnd2)
         IN  /\ Apply(s)
             /\ pc' = IF s.threw THEN "crashed" ELSE "ready"
             /\ last' = Op("constructor", <<>>, "", "ok", s)
             /\ bootLen' = Len(loadStoredAuditLog(Cur).items)
    /\ lastTick' = now
    /\ UNCHANGED <<now, steps, issued, warned>>

SetSession ==
    /\ Ready
    /\ \E a \in Logins, rnd \in RandomSuffixes :
         LET s == setSession(Cur, a.username, a.role, a.name, a.twoFactor, rnd)
         IN  /\ Apply(s)
             /\ last' = Op("setSession", <<>>, a.username, "undefined", s)
             /\ issued' = Append(issued, s.currentUser.sessionId)
    /\ Step

LoadSession ==
    /\ Ready
    /\ \E rnd1 \in RandomSuffixes, rnd2 \in RandomSuffixes :
         LET s == loadSession(Cur, rnd1, rnd2)
         IN  /\ Apply(s)
             /\ last' = Op("loadSession", <<>>, "", "undefined", s)
    /\ Step
    /\ UNCHANGED issued

Logout ==
    /\ Ready
    /\ \E reason \in Reasons, rnd \in RandomSuffixes :
         LET s == logout(Cur, reason, rnd)
         IN  /\ Apply(s)
             /\ last' = Op("logout", <<>>, reason, "undefined", s)
    /\ Step
    /\ UNCHANGED issued

ClearSession ==
    /\ Ready
    /\ LET s == clearSession(Cur)
       IN  /\ Apply(s)
           /\ last' = Op("clearSession", <<>>, "", "undefined", s)
    /\ Step
    /\ UNCHANGED issued

HasPermission ==
    /\ Ready
    /\ \E p \in AskedPermissions :
         /\ Apply(Cur)
         /\ last' = Op("hasPermission", p, "", hasPermission(currentUser, p), Cur)
    /\ Step
    /\ UNCHANGED issued

RequirePermission ==
    /\ Ready
    /\ \E p \in AskedPermissions, rnd \in RandomSuffixes :
         LET r == requirePermission(Cur, p, "approve removal", rnd)
         IN  /\ Apply(r.st)
             /\ last' = Op("requirePermission", p, "approve removal", r.ret, r.st)
    /\ Step
    /\ UNCHANGED issued

LogAudit ==
    /\ Ready
    /\ \E rnd \in ClickSuffixes :
         LET s == logAudit(Cur, "action_performed", [action |-> "unknown"], rnd)
         IN  /\ Apply(s)
             /\ last' = Op("logAudit", <<>>, "action_performed", "entry", s)
    /\ Step
    /\ UNCHANGED issued

GetAuditLog ==
    /\ Ready
    /\ \E filters \in QueryFilters :
         LET r == getAuditLog(Cur, filters)
         IN  /\ Apply(r.st)
             /\ last' = [Op("getAuditLog", <<>>, "", "entries", r.st)
                           EXCEPT !.filters = filters, !.out = r.out]
    /\ Step
    /\ UNCHANGED issued

ExportAuditLog ==
    /\ Ready
    /\ \E format \in Formats, rnd \in RandomSuffixes :
         LET r == exportAuditLog(Cur, format, rnd)
         IN  /\ Apply(r.st)
             /\ last' = [Op("exportAuditLog", <<>>, format, "undefined", r.st)
                           EXCEPT !.file = r.file]
    /\ Step
    /\ UNCHANGED issued

Request ==
    /\ Ready
    /\ \E endpoint \in Endpoints, rnd \in RandomSuffixes :
         LET r == request(Cur, endpoint, rnd)
         IN  /\ Apply(r.st)
             /\ last' = Op("request", endpointPermissions(endpoint), endpoint, r.ret, r.st)
    /\ Step
    /\ UNCHANGED issued

\* the callback of setInterval(..., 60 * 1000): the page idles until the
\* timer is due (one period after it was started or last fired), then the
\* callback runs
TimerTick ==
    /\ Ready
    /\ now' = IF now - lastTick >= TimerPeriod THEN now ELSE lastTick + TimerPeriod
    /\ Apply(Cur)
    /\ last' = Op("timer", <<>>, "",
                  IF timerWarns([Cur EXCEPT !.now = now']) THEN "warning" ELSE "quiet",
                  Cur)
    /\ warned' = IF timerWarns([Cur EXCEPT !.now = now'])
                 THEN Append(warned, getTime(currentUser.timestamp))
                 ELSE warned
    /\ lastTick' = now'
    /\ steps' = steps - 1
    /\ UNCHANGED <<pc, bootLen, issued>>

\* time passes between two callbacks
Advance ==
    /\ Ready
    /\ \E d \in ClockSteps : now' = now + d
    /\ Apply(Cur)
    /\ last' = Op("advance", <<>>, "", "", Cur)
    /\ steps' = steps - 1
    /\ UNCHANGED <<pc, lastTick, bootLen, issued, warned>>

Next ==
    \/ Construct
    \/ SetSession
    \/ LoadSession
    \/ Logout
    \/ ClearSession
    \/ HasPermission
    \/ RequirePermission
    \/ LogAudit
    \/ GetAuditLog
    \/ ExportAuditLog
    \/ Request
    \/ TimerTick
    \/ Advance

Spec == Init /\ [][Next]_vars

SpecCap == InitCap /\ [][Next]_vars

SpecCorrupt == InitCorrupt /\ [][Next]_vars

SpecTimer == InitTimer /\ [][Next]_vars

SpecRoles == InitRoles /\ [][Next]_vars

(* Vocabulary of the properties *)

Active == pc = "ready" /\ Truthy(currentUser)

RoleOf(cu) == Get(cu, "role")

\* the part of a permission string before its first ":"
RECURSIVE BeforeColon(_)
BeforeColon(p) ==
    IF p = <<>> \/ Head(p) = ":" THEN <<>> ELSE <<Head(p)>> \o BeforeColon(Tail(p))

PermissionSet(r) == {roles[r].permissions[i] : i \in DOMAIN roles[r].permissions}

\* the grant rule as the data model words it
Granted(r, p) ==
    \/ Star \in PermissionSet(r)
    \/ p \in PermissionSet(r)
    \/ BeforeColon(p) \o <<":", "*">> \in PermissionSet(r)

\* permission strings asked of the evaluator: every registered one and
\* unregistered, wildcard, colon-less, empty and many-colon ones
ProbePermissions ==
    UNION {PermissionSet(r) : r \in RegisteredRoles}
    \cup {<<>>, <<"view">>, <<":">>, <<":", "*">>, <<":", "public">>,
          Perm("view", "*"), Perm("view", "other"), Perm("audit", "*"),
          Perm("delete", "artifacts"), Perm("*", "*"),
          <<"view", ":", "dashboard", ":", "x">>, <<"view", ":">>}

Min(a, b) == IF a < b THEN a ELSE b

\* the last n entries of a sequence, in their order
LastEntries(seq, n) == [i \in 1..n |-> seq[Len(seq) - n + i]]

\* a log after entries were appended to it under the cap
CappedConcat(log, entries) ==
    LastEntries(log \o entries, Min(AuditCap, Len(log) + Len(entries)))

\* C1: with an active session of a registered role R, hasPermission(P) is true
\* exactly when R's permission set holds "*", P, or category(P) + ":*", for
\* every permission string P; an admin session is granted every P.
C1_GrantRule ==
    (Active /\ RoleOf(currentUser) \in RegisteredRoles) =>
        /\ \A p \in ProbePermissions :
             LET answer == hasPermission(currentUser, p)
             IN  /\ answer \in {"true", "false"}
                 /\ answer = "true" <=> Granted(RoleOf(currentUser), p)
                 /\ RoleOf(currentUser) = "admin" => answer = "true"
        /\ last.op = "hasPermission" =>
             (last.ret = "true" <=> Granted(RoleOf(currentUser), last.perm))

C1_Witness ==
    /\ Active
    /\ RoleOf(currentUser) \in RegisteredRoles \ {"admin"}
    /\ last.op = "hasPermission"
    /\ last.ret = "true"

\* C2: hasPermission(P) is false, and raises nothing, for every P when there
\* is no active session or the session's role is no registered role.
C2_UnregisteredRoleDenied ==
    (pc = "ready" /\ (~Truthy(currentUser) \/ RoleOf(currentUser) \notin RegisteredRoles)) =>
        \A p \in ProbePermissions : hasPermission(currentUser, p) = "false"

\* C3: the in-memory audit log holds at most 1000 entries in every state.
C3_LogAtMostCap == Len(auditLog) <= AuditCap

\* the loaded log followed by everything appended since
History == StoredLogOf(bootLen).value \o appendedAll

\* C4: eviction is FIFO: after appends onto the loaded log, the log is the
\* last min(1000, m + n) entries of loaded log and appended entries, in
\* insertion order.
C4_FifoEviction ==
    (appendedAll # <<>> \/ bootLen <= AuditCap) =>
        auditLog = LastEntries(History, Min(AuditCap, Len(History)))

C4_Witness ==
    /\ bootLen = AuditCap
    /\ appendedAll # <<>>
    /\ auditLog[1] = StoredEntry(Len(appendedAll) + 1)
    /\ auditLog[AuditCap] = appendedAll[Len(appendedAll)]

\* the stored session is older than 24 hours
StoredExpired ==
    /\ storedAuth \notin {Absent, Garbage}
    /\ now - getTime(JSONparse(storedAuth).timestamp) > SessionTTL

\* C5: a load (by the constructor or by loadSession) that reads a session
\* older than 24 hours leaves no active session, removes the stored session,
\* and its user_logout entry with reason "Session expired" follows its
\* session_loaded entry in the log.
C5_ExpiredOnLoad ==
    [][(last'.op \in {"constructor", "loadSession"} /\ StoredExpired) =>
          /\ currentUser' = Null
          /\ storedAuth' = Absent
          /\ Len(last'.appended) = 2
          /\ last'.appended[1].event = "session_loaded"
          /\ last'.appended[2].event = "user_logout"
          /\ last'.appended[2].data = [reason |-> "Session expired"]
          /\ Len(auditLog') >= 2
          /\ auditLog'[Len(auditLog') - 1] = last'.appended[1]
          /\ auditLog'[Len(auditLog')] = last'.appended[2]]_vars

C5_Witness ==
    /\ last.op \in {"constructor", "loadSession"}
    /\ Len(last.appended) = 2
    /\ last.appended[2].event = "user_logout"
    /\ currentUser = Null
    /\ storedAuth = Absent

\* C6: once the active session is older than 24 hours, the next firing of the
\* 60-second timer leaves no active session.
C6_TimerInvalidatesExpired ==
    [][(/\ last'.op = "timer"
        /\ Truthy(currentUser)
        /\ now' - getTime(currentUser.timestamp) > SessionTTL)
          => currentUser' = Null]_vars

SessionKeys == {"username", "role", "name", "timestamp", "sessionId", "twoFactor"}

\* C7: setSession makes the session it builds the active one, persists that
\* session, and appends exactly one session_created entry with payload
\* {userId, role, twoFactor}, attributed to the new session's user and role.
C7_SetSession ==
    [][last'.op = "setSession" =>
          /\ \E a \in Logins :
               /\ a.username = last'.text
               /\ currentUser'.username = a.username
               /\ currentUser'.role = a.role
               /\ currentUser'.twoFactor = a.twoFactor
               /\ currentUser'.timestamp = toISOString(now)
               /\ last'.appended[1].data =
                    [userId |-> a.username, role |-> a.role, twoFactor |-> a.twoFactor]
          /\ storedAuth' \notin {Absent, Garbage}
          /\ \A k \in SessionKeys :
               IF k \in StringKeys /\ currentUser'[k] = Undef
               THEN k \notin DOMAIN JSONparse(storedAuth')
               ELSE /\ k \in DOMAIN JSONparse(storedAuth')
                    /\ JSONparse(storedAuth')[k] = currentUser'[k]
          /\ Len(last'.appended) = 1
          /\ last'.appended[1].event = "session_created"
          /\ last'.appended[1].userId = currentUser'.username
          /\ last'.appended[1].userRole = currentUser'.role
          /\ auditLog' = CappedConcat(auditLog, last'.appended)]_vars

C7_Witness ==
    /\ last.op = "setSession"
    /\ Len(issued) = 2
    /\ Len(appendedAll) >= 2
    /\ appendedAll[Len(appendedAll) - 1].event = "session_created"
    /\ appendedAll[Len(appendedAll) - 1].userId # currentUser.username

\* C8: any two setSession calls of one page lifetime produce different
\* sessionId values.
C8_SessionIdsUnique ==
    \A i, j \in DOMAIN issued : i # j => issued[i] # issued[j]

\* C9: logout(reason) appends one user_logout entry with payload {reason}
\* attributed to the user and role active before the call (anonymous and
\* guest when none), then clears the in-memory and the stored session, then
\* stores the pre-logout location and a message for the login page.
C9_Logout ==
    [][last'.op = "logout" =>
          /\ Len(last'.appended) = 1
          /\ last'.appended[1].event = "user_logout"
          /\ last'.appended[1].data = [reason |-> last'.text]
          /\ last'.appended[1].userId =
               (IF Truthy(currentUser) THEN currentUser.username ELSE "anonymous")
          /\ last'.appended[1].userRole =
               (IF Truthy(currentUser) THEN currentUser.role ELSE "guest")
          /\ auditLog' = CappedConcat(auditLog, last'.appended)
          /\ currentUser' = Null
          /\ storedAuth' = Absent
          /\ storedRedirect' = location
          /\ storedMessage' # NoItem
          /\ navigatedTo' = LoginPage]_vars

C9_Witness ==
    /\ last.op = "logout"
    /\ last.appended[1].userId = "alice"
    /\ last.appended[1].userRole = "curator"
    /\ currentUser = Null
    /\ storedAuth = Absent
    /\ navigatedTo = LoginPage

\* C10: requirePermission(P, action) with hasPermission(P) false returns
\* false, appends exactly one permission_denied entry with payload
\* {permission: P, action, userId: the session's username}, and leaves the
\* session as it was.
C10_Denied ==
    [][(last'.op = "requirePermission" /\ hasPermission(currentUser, last'.perm) = "false") =>
          /\ last'.ret = "false"
          /\ Len(last'.appended) = 1
          /\ last'.appended[1].event = "permission_denied"
          /\ last'.appended[1].data =
               [permission |-> last'.perm, action |-> last'.text,
                userId |-> IF Truthy(currentUser) THEN currentUser.username ELSE Undef]
          /\ auditLog' = CappedConcat(auditLog, last'.appended)
          /\ currentUser' = currentUser
          /\ storedAuth' = storedAuth]_vars

C10_Witness ==
    /\ last.op = "requirePermission"
    /\ last.perm = Perm("approve", "deaccession")
    /\ last.ret = "false"
    /\ Active
    /\ currentUser.role = "curator"
    /\ Len(last.appended) = 1
    /\ last.appended[1].event = "permission_denied"

\* a filter counts as given when its value is truthy: a non-empty string, a date
FilterMatch(e, f) ==
    /\ TruthyStr(f.userId) => e.userId = f.userId
    /\ TruthyStr(f.event) => e.event = f.event
    /\ f.startDate # NoDate => getTime(e.timestamp) >= getTime(f.startDate)
    /\ f.endDate # NoDate => getTime(e.timestamp) <= getTime(f.endDate)

Occurrences(seq, e) == Cardinality({i \in DOMAIN seq : seq[i] = e})

Entries(seq) == {seq[i] : i \in DOMAIN seq}

\* res holds every entry of log that matches f as often as log holds it, holds
\* nothing else, and is ordered by timestamp, newest first
QueryResultOf(res, log, f) ==
    /\ \A e \in Entries(res) \cup Entries(log) :
         Occurrences(res, e) = IF FilterMatch(e, f) THEN Occurrences(log, e) ELSE 0
    /\ \A i, j \in DOMAIN res :
         i < j => getTime(res[i].timestamp) >= getTime(res[j].timestamp)

\* C11: getAuditLog(filters) returns exactly the entries of the audit log that
\* satisfy every given filter (userId equal, event equal, timestamp >=
\* startDate, timestamp <= endDate), each as often as the log holds it, ordered
\* by timestamp descending; with no filters it returns all entries.
C11_Query ==
    (last.op = "getAuditLog" /\ last.ret # "TypeError") =>
        /\ QueryResultOf(last.out, auditLog, last.filters)
        /\ last.filters = NoFilters => Len(last.out) = Len(auditLog)

C11_Witness ==
    /\ last.op = "getAuditLog"
    /\ last.filters = [NoFilters EXCEPT !.userId = "alice"]
    /\ Len(auditLog) = 3
    /\ Len(last.out) = 2
    /\ last.out[1] = auditLog[2]
    /\ last.out[2] = auditLog[1]
    /\ auditLog[3].userId # "alice"
    /\ getTime(auditLog[1].timestamp) < getTime(auditLog[2].timestamp)

\* what the claims call state: the session, the log and localStorage
SameState ==
    /\ currentUser' = currentUser
    /\ auditLog' = auditLog
    /\ storedAuth' = storedAuth
    /\ storedLog' = storedLog
    /\ storedRedirect' = storedRedirect
    /\ storedMessage' = storedMessage

\* C12: hasPermission (whatever its result), requirePermission when the
\* permission is granted, and getAuditLog leave the session, the audit log and
\* localStorage unchanged; a getAuditLog that directly follows a getAuditLog
\* with the same filters returns the same list.
C12_ReadOnly ==
    [][/\ (\/ last'.op \in {"hasPermission", "getAuditLog"}
           \/ last'.op = "requirePermission" /\ last'.ret = "true")
             => SameState
       /\ (last.op = "getAuditLog" /\ last'.op = "getAuditLog"
             /\ last'.filters = last.filters)
             => last'.out = last.out]_vars

C12_Witness ==
    /\ last.op = "getAuditLog"
    /\ last.filters = NoFilters
    /\ Len(last.out) = 2
    /\ last.out[1] = auditLog[2]
    /\ last.out[2] = auditLog[1]
    /\ last.out # auditLog
    /\ storedLog = JSONstringifyLog(auditLog)
    /\ steps = 0

\* a list of entries as JSON text carries it: undefined properties left out
AsJSON(logs) == [i \in DOMAIN logs |-> [logs[i] EXCEPT !.data = DropUndefined(@)]]

\* C13: exportAuditLog("json" or "csv") downloads exactly the list
\* getAuditLog() returns before the export: the file does not hold this
\* export's audit_log_exported entry, the entries already in the log stay as
\* they are, and one audit_log_exported entry with payload {format,
\* entryCount = number of exported entries} is appended.
C13_Export ==
    [][(last'.op = "exportAuditLog" /\ last'.text \in {"json", "csv"}) =>
          LET snapshot == getAuditLog(Cur, NoFilters).out
          IN  /\ QueryResultOf(snapshot, auditLog, NoFilters)
              /\ IF last'.text = "json"
                 THEN /\ last'.file.type = "application/json"
                      /\ JSONparse(last'.file.content) = AsJSON(snapshot)
                      /\ \A i \in DOMAIN JSONparse(last'.file.content) :
                           JSONparse(last'.file.content)[i] # last'.appended[1]
                 ELSE /\ last'.file.type = "text/csv"
                      /\ Len(last'.file.content) = Len(snapshot) + 1
                      /\ \A i \in DOMAIN snapshot :
                           last'.file.content[i + 1] = CsvRow(snapshot[i])
              /\ Len(last'.appended) = 1
              /\ last'.appended[1].event = "audit_log_exported"
              /\ last'.appended[1].data =
                   [format |-> last'.text, entryCount |-> Len(snapshot)]
              /\ auditLog' = CappedConcat(auditLog, last'.appended)]_vars

C13_Witness ==
    /\ last.op = "exportAuditLog"
    /\ last.text = "json"
    /\ Len(auditLog) = 4
    /\ Len(JSONparse(last.file.content)) = 3
    /\ JSONparse(last.file.content)[1] = auditLog[2]
    /\ JSONparse(last.file.content)[3] = auditLog[1]
    /\ auditLog[3].event = "permission_denied"
    /\ auditLog[4].data = [format |-> "json", entryCount |-> 3]

\* the stored text is a usable session: it parses to an object that has a
\* username, a role and a timestamp
StoredUsable ==
    /\ storedAuth \notin {Absent, Garbage}
    /\ {"username", "role", "timestamp"} \subseteq DOMAIN JSONparse(storedAuth)

\* C14: a load (by the constructor or by loadSession) that finds a stored
\* session text which is no usable session raises nothing, leaves no active
\* session, removes the stored text and appends no audit entry.
C14_CorruptSessionSilent ==
    [][(/\ last'.op \in {"constructor", "loadSession"}
        /\ storedAuth # Absent
        /\ ~StoredUsable) =>
          /\ last'.ret # "TypeError"
          /\ currentUser' = Null
          /\ storedAuth' = Absent
          /\ last'.appended = <<>>]_vars

\* C15: a stored audit log that is no serialized array of entries is an
\* empty log to the constructor, which succeeds and loads a usable,
\* unexpired stored session that stays stored; afterwards no call ends by an
\* exception and every append extends the log.
C15_CorruptLogHarmless ==
    [][/\ (last'.op = "constructor" /\ storedLog \in {Garbage, ObjectText}) =>
            /\ pc' = "ready"
            /\ logKind' = "array"
            /\ auditLog' = last'.appended
            /\ (StoredUsable /\ ~StoredExpired) =>
                 /\ currentUser' = JSONparse(storedAuth)
                 /\ storedAuth' = storedAuth
       /\ last'.ret # "TypeError"
       /\ logKind' = "array"
       /\ last'.op # "constructor" => auditLog' = CappedConcat(auditLog, last'.appended)]_vars

\* the session's role is registered and grants p
SessionGrants(cu, p) ==
    /\ Truthy(cu)
    /\ RoleOf(cu) \in RegisteredRoles
    /\ Granted(RoleOf(cu), p)

\* what the route gates ask of the session on the page at loc
RouteAllowed(loc, cu) ==
    /\ IsDashboardPath(loc.pathname) =>
         /\ SessionGrants(cu, Perm("view", "dashboard"))
         /\ roles[RoleOf(cu)].dashboardAccess
    /\ IsAuditPath(loc.pathname) => SessionGrants(cu, Perm("audit", "full"))

GateMessages ==
    {"Please log in to access the dashboard",
     "Insufficient permissions for dashboard access",
     "Audit access requires elevated permissions"}

\* C16: when the constructor has run on a dashboard or audit page, no
\* redirect to login is signalled exactly when the session it leaves active
\* grants view:dashboard with dashboardAccess (dashboard page) and audit:full
\* (audit page; of the registered roles only auditor and admin grant it);
\* every other case stores a gate message and the page's location and
\* navigates to login.
C16_RouteGating ==
    [][(/\ last'.op = "constructor"
        /\ IsDashboardPath(location.pathname) \/ IsAuditPath(location.pathname)) =>
          /\ navigatedTo' # LoginPage <=> RouteAllowed(location, currentUser')
          /\ navigatedTo' = LoginPage =>
               /\ storedMessage' \in GateMessages
               /\ storedRedirect' = location
          /\ {r \in RegisteredRoles : Granted(r, Perm("audit", "full"))}
               = {"auditor", "admin"}]_vars

\* C17: no two entries of the audit log have the same id, also when they
\* were appended in the same millisecond.
C17_AuditIdsUnique ==
    \A i, j \in DOMAIN auditLog : i # j => auditLog[i].id # auditLog[j].id

\* the place of entry e in a list that holds it
IndexOf(seq, e) == CHOOSE i \in DOMAIN seq : seq[i] = e

\* of two different entries of the log that res holds, the one appended later
\* comes first
LaterFirst(res, log) ==
    \A a, b \in DOMAIN log :
        (a < b /\ log[a] # log[b] /\ log[a] \in Entries(res) /\ log[b] \in Entries(res))
            => IndexOf(res, log[b]) < IndexOf(res, log[a])

\* C18: after two setSession calls on an empty log getAuditLog({event:
\* "session_created"}) returns their two entries, the second call's first;
\* and whatever the filters, of two entries getAuditLog returns the one
\* appended later comes first, also when their timestamps are equal.
C18_NewestFirst ==
    pc = "ready" =>
        /\ (bootLen = 0 /\ Len(issued) = 2 /\ Len(appendedAll) = 2) =>
              getAuditLog(Cur, [NoFilters EXCEPT !.userId = "",
                                                 !.event = "session_created"]).out
                = <<appendedAll[2], appendedAll[1]>>
        /\ \A f \in QueryFilters : LaterFirst(getAuditLog(Cur, f).out, auditLog)
        /\ last.op = "getAuditLog" => LaterFirst(last.out, auditLog)

\* C19: a firing of the 60-second timer calls showWarning only when the
\* session's remaining validity at that moment is strictly between 4 and 5
\* minutes, no session is warned about twice, and a firing leaves the
\* session, the audit log and localStorage as they were.
C19_WarningOnce ==
    [][last'.op = "timer" =>
          /\ last'.ret = "warning" =>
               /\ Truthy(currentUser)
               /\ SessionTTL - (now' - getTime(currentUser.timestamp)) > 4 * MINUTE
               /\ SessionTTL - (now' - getTime(currentUser.timestamp)) < 5 * MINUTE
          /\ \A i, j \in DOMAIN warned' : i # j => warned'[i] # warned'[j]
          /\ SameState]_vars

C19_Witness ==
    /\ last.op = "timer"
    /\ last.ret = "quiet"
    /\ Active
    /\ warned = <<getTime(currentUser.timestamp)>>
    /\ SessionTTL - (now - getTime(currentUser.timestamp)) = 3 * MINUTE + 30 * 1000

\* the stored session is there exactly when a session is active, and is the
\* active session as JSON carries it
SessionMirrored(cu, stored) ==
    IF Truthy(cu)
    THEN /\ stored \notin {Absent, Garbage}
         /\ JSONparse(stored) = DropUndefined(cu)
    ELSE stored = Absent

MutatingOps ==
    {"setSession", "loadSession", "logout", "clearSession", "requirePermission",
     "logAudit", "exportAuditLog"}

\* C20: when setSession, loadSession, logout, clearSession, requirePermission,
\* logAudit or exportAuditLog has returned, localStorage holds a session
\* exactly when one is active, and it is the active one; after every call
\* that appended, the stored audit log is the whole in-memory log, entry by
\* entry in the same order, of at most 1000 entries.
C20_StorageMirrors ==
    [][/\ (last'.op \in MutatingOps /\ last'.ret # "TypeError") =>
            SessionMirrored(currentUser', storedAuth')
       /\ last'.appended # <<>> =>
            /\ storedLog' \notin {Absent, Garbage, ObjectText}
            /\ JSONparse(storedLog') = AsJSON(auditLog')
            /\ Len(JSONparse(storedLog')) <= AuditCap]_vars

C20_Witness ==
    /\ last.op = "setSession"
    /\ currentUser.name = Undef
    /\ "name" \notin DOMAIN JSONparse(storedAuth)
    /\ JSONparse(storedAuth).sessionId = currentUser.sessionId
    /\ Len(auditLog) = 3
    /\ auditLog[2].event = "permission_denied"
    /\ auditLog[2].data.userId = Undef
    /\ JSONparse(storedLog) = AsJSON(auditLog)
    /\ JSONparse(storedLog) # auditLog

\* C21: in the role registry a role grants view:dashboard exactly when its
\* dashboardAccess flag is true (curator, board, auditor, admin: both; guest,
\* researcher: neither); so when the constructor loads the session of a
\* registered role the dashboard's second gate never stores 'Insufficient
\* permissions for dashboard access', and on a dashboard page the first gate
\* redirects exactly the roles without the flag.
C21_GatesAgree ==
    [][(/\ last'.op = "constructor"
        /\ StoredUsable
        /\ RoleOf(JSONparse(storedAuth)) \in RegisteredRoles) =>
          LET r == RoleOf(JSONparse(storedAuth))
          IN  /\ \A q \in RegisteredRoles :
                    Granted(q, Perm("view", "dashboard")) <=> roles[q].dashboardAccess
              /\ {q \in RegisteredRoles : roles[q].dashboardAccess}
                    = {"curator", "board", "auditor", "admin"}
              /\ storedMessage' # "Insufficient permissions for dashboard access"
              /\ (IsDashboardPath(location.pathname) /\ ~StoredExpired) =>
                    /\ storedMessage' = "Please log in to access the dashboard"
                          <=> ~roles[r].dashboardAccess
                    /\ navigatedTo' = LoginPage <=> ~roles[r].dashboardAccess]_vars

\* the constructor has loaded a researcher's session on a page under
\* dashboard/ and the first gate has sent it to login
C21_Witness ==
    /\ last.op = "constructor"
    /\ location.pathname = <<"dashboard", "index.html">>
    /\ Truthy(currentUser)
    /\ RoleOf(currentUser) = "researcher"
    /\ storedMessage = "Please log in to access the dashboard"
    /\ navigatedTo = LoginPage

\* C22: FW_API.request without an active session returns status 401 and
\* appends nothing; with an active session and an endpoint mapped to a
\* permission the session's role does not grant it returns status 403 and
\* appends exactly one api_permission_denied entry; in every other case it
\* appends exactly one api_request entry and resolves with status 200.
C22_RequestOutcomes ==
    [][last'.op = "request" =>
         LET requiredPermission == last'.perm
             added == last'.appended
         IN  IF ~Truthy(currentUser)
             THEN /\ last'.ret = "401"
                  /\ added = <<>>
                  /\ auditLog' = auditLog
             ELSE IF /\ requiredPermission # <<>>
                     /\ ~SessionGrants(currentUser, requiredPermission)
             THEN /\ last'.ret = "403"
                  /\ Len(added) = 1
                  /\ added[1].event = "api_permission_denied"
             ELSE /\ last'.ret = "200"
                  /\ Len(added) = 1
                  /\ added[1].event = "api_request"]_vars

====
